---- MODULE Spec2Model ----
(***************************************************************************)
(* Model of backend/app/services/video.py: the URL classifier, the         *)
(* extraction orchestrator with its strategy catalog and format            *)
(* normalizer, the download orchestrator with its one retry, and the       *)
(* scratch-space cleanup, over a small POSIX-like filesystem.              *)
(*                                                                         *)
(* Python strings are sequences of one-character strings, so that `in`,    *)
(* lower(), upper() and f-string formatting are computed, not assumed.     *)
(* Paths are sequences of path segments (pathlib keeps ".." segments).     *)
(***************************************************************************)
EXTENDS Integers, Sequences, FiniteSets, TLC

\* ------------------------------------------------------------------ bounds
\* Session identifiers uuid4 can produce in one run.
MaxSessions == 2
\* Length of the raw format lists the probes return in SpecNorm.
MaxFormats == 2

\* --------------------------------------------------------- string literals
P_facebook_com ==
    <<"f", "a", "c", "e", "b", "o", "o", "k", ".", "c", "o", "m">>

P_fb_com ==
    <<"f", "b", ".", "c", "o", "m">>

P_fb_watch ==
    <<"f", "b", ".", "w", "a", "t", "c", "h">>

P_m_facebook_com ==
    <<"m", ".", "f", "a", "c", "e", "b", "o", "o", "k", ".", "c", "o", "m">>

\* "https://facebook.com/reel/123"
U_reel ==
    <<"h", "t", "t", "p", "s", ":", "/", "/", "f", "a", "c", "e", "b", "o", "o", "k", ".",
      "c", "o", "m", "/", "r", "e", "e", "l", "/", "1", "2", "3">>

\* "FB.Watch/x"
U_upper ==
    <<"F", "B", ".", "W", "a", "t", "c", "h", "/", "x">>

\* "vimeo.com/1"
U_other ==
    <<"v", "i", "m", "e", "o", ".", "c", "o", "m", "/", "1">>

\* "fb.co/m"
U_near ==
    <<"f", "b", ".", "c", "o", "/", "m">>

M_invalid_url ==
    <<"N", "o", "t", " ", "a", " ", "v", "a", "l", "i", "d", " ", "F", "a", "c", "e", "b",
      "o", "o", "k", " ", "U", "R", "L">>

M_guidance ==
    <<"U", "n", "a", "b", "l", "e", " ", "t", "o", " ", "d", "o", "w", "n", "l", "o", "a",
      "d", " ", "t", "h", "i", "s", " ", "F", "a", "c", "e", "b", "o", "o", "k", " ", "v",
      "i", "d", "e", "o", ".", " ", "F", "a", "c", "e", "b", "o", "o", "k", " ", "h", "a",
      "s", " ", "u", "p", "d", "a", "t", "e", "d", " ", "t", "h", "e", "i", "r", " ", "s",
      "e", "c", "u", "r", "i", "t", "y", " ", "m", "e", "a", "s", "u", "r", "e", "s", ".",
      " ", "P", "l", "e", "a", "s", "e", " ", "t", "r", "y", " ", "o", "n", "e", " ", "o",
      "f", " ", "t", "h", "e", "s", "e", " ", "s", "o", "l", "u", "t", "i", "o", "n", "s",
      ":", "\n", "1", ".", " ", "F", "o", "r", " ", "R", "e", "e", "l", "s", ":", " ", "O",
      "p", "e", "n", " ", "t", "h", "e", " ", "l", "i", "n", "k", " ", "i", "n", " ", "y",
      "o", "u", "r", " ", "b", "r", "o", "w", "s", "e", "r", ",", " ", "c", "o", "p", "y",
      " ", "t", "h", "e", " ", "f", "u", "l", "l", " ", "U", "R", "L", " ", "(", "f", "a",
      "c", "e", "b", "o", "o", "k", ".", "c", "o", "m", "/", "r", "e", "e", "l", "/", "1",
      "2", "3", "4", "5", "6", "7", "8", "9", ")", "\n", "2", ".", " ", "F", "o", "r", " ",
      "r", "e", "g", "u", "l", "a", "r", " ", "v", "i", "d", "e", "o", "s", ":", " ", "T",
      "r", "y", " ", "u", "s", "i", "n", "g", " ", "t", "h", "e", " ", "d", "i", "r", "e",
      "c", "t", " ", "v", "i", "d", "e", "o", " ", "U", "R", "L", " ", "i", "n", "s", "t",
      "e", "a", "d", " ", "o", "f", " ", "s", "h", "a", "r", "e", " ", "l", "i", "n", "k",
      "s", "\n", "3", ".", " ", "S", "o", "m", "e", " ", "v", "i", "d", "e", "o", "s", " ",
      "m", "a", "y", " ", "b", "e", " ", "r", "e", "s", "t", "r", "i", "c", "t", "e", "d",
      " ", "a", "n", "d", " ", "c", "a", "n", "n", "o", "t", " ", "b", "e", " ", "d", "o",
      "w", "n", "l", "o", "a", "d", "e", "d", "\n", "N", "o", "t", "e", ":", " ", "F", "a",
      "c", "e", "b", "o", "o", "k", " ", "a", "c", "t", "i", "v", "e", "l", "y", " ", "b",
      "l", "o", "c", "k", "s", " ", "a", "u", "t", "o", "m", "a", "t", "e", "d", " ", "d",
      "o", "w", "n", "l", "o", "a", "d", "s", " ", "a", "n", "d", " ", "t", "h", "i", "s",
      " ", "m", "a", "y", " ", "n", "o", "t", " ", "w", "o", "r", "k", " ", "f", "o", "r",
      " ", "a", "l", "l", " ", "v", "i", "d", "e", "o", "s", ".">>

M_private ==
    <<"T", "h", "i", "s", " ", "v", "i", "d", "e", "o", " ", "a", "p", "p", "e", "a", "r",
      "s", " ", "t", "o", " ", "b", "e", " ", "p", "r", "i", "v", "a", "t", "e", " ", "o",
      "r", " ", "r", "e", "q", "u", "i", "r", "e", "s", " ", "l", "o", "g", "i", "n", ".",
      " ", "O", "n", "l", "y", " ", "p", "u", "b", "l", "i", "c", " ", "v", "i", "d", "e",
      "o", "s", " ", "c", "a", "n", " ", "b", "e", " ", "d", "o", "w", "n", "l", "o", "a",
      "d", "e", "d", ".">>

M_could_not_process ==
    <<"C", "o", "u", "l", "d", " ", "n", "o", "t", " ", "p", "r", "o", "c", "e", "s", "s",
      " ", "v", "i", "d", "e", "o", ":", " ">>

M_any_format ==
    <<"C", "o", "u", "l", "d", " ", "n", "o", "t", " ", "d", "o", "w", "n", "l", "o", "a",
      "d", " ", "v", "i", "d", "e", "o", " ", "i", "n", " ", "a", "n", "y", " ", "a", "v",
      "a", "i", "l", "a", "b", "l", "e", " ", "f", "o", "r", "m", "a", "t", ":", " ">>

M_download_failed ==
    <<"D", "o", "w", "n", "l", "o", "a", "d", " ", "f", "a", "i", "l", "e", "d", ":", " ">>

M_unexpected ==
    <<"U", "n", "e", "x", "p", "e", "c", "t", "e", "d", " ", "e", "r", "r", "o", "r", " ",
      "d", "u", "r", "i", "n", "g", " ", "d", "o", "w", "n", "l", "o", "a", "d", ":", " ">>

K_cannot_parse ==
    <<"C", "a", "n", "n", "o", "t", " ", "p", "a", "r", "s", "e", " ", "d", "a", "t", "a">>

K_unable_to_extract ==
    <<"u", "n", "a", "b", "l", "e", " ", "t", "o", " ", "e", "x", "t", "r", "a", "c", "t">>

K_private_video ==
    <<"P", "r", "i", "v", "a", "t", "e", " ", "v", "i", "d", "e", "o">>

K_login ==
    <<"l", "o", "g", "i", "n">>

K_format_unavailable ==
    <<"R", "e", "q", "u", "e", "s", "t", "e", "d", " ", "f", "o", "r", "m", "a", "t", " ",
      "i", "s", " ", "n", "o", "t", " ", "a", "v", "a", "i", "l", "a", "b", "l", "e">>

E_parse ==
    <<"C", "a", "n", "n", "o", "t", " ", "p", "a", "r", "s", "e", " ", "d", "a", "t", "a">>

E_extract ==
    <<"U", "n", "a", "b", "l", "e", " ", "t", "o", " ", "e", "x", "t", "r", "a", "c", "t",
      " ", "v", "i", "d", "e", "o", " ", "u", "r", "l">>

E_private ==
    <<"P", "r", "i", "v", "a", "t", "e", " ", "v", "i", "d", "e", "o">>

E_login ==
    <<"L", "o", "g", "i", "n", " ", "r", "e", "q", "u", "i", "r", "e", "d">>

E_http ==
    <<"H", "T", "T", "P", " ", "E", "r", "r", "o", "r", " ", "4", "0", "4">>

E_format ==
    <<"R", "e", "q", "u", "e", "s", "t", "e", "d", " ", "f", "o", "r", "m", "a", "t", " ",
      "i", "s", " ", "n", "o", "t", " ", "a", "v", "a", "i", "l", "a", "b", "l", "e">>

E_nonetype_lower ==
    <<"'", "N", "o", "n", "e", "T", "y", "p", "e", "'", " ", "o", "b", "j", "e", "c", "t",
      " ", "h", "a", "s", " ", "n", "o", " ", "a", "t", "t", "r", "i", "b", "u", "t", "e",
      " ", "'", "l", "o", "w", "e", "r", "'">>

E_nonetype_iter ==
    <<"a", "r", "g", "u", "m", "e", "n", "t", " ", "o", "f", " ", "t", "y", "p", "e", " ",
      "'", "N", "o", "n", "e", "T", "y", "p", "e", "'", " ", "i", "s", " ", "n", "o", "t",
      " ", "i", "t", "e", "r", "a", "b", "l", "e">>

T_m3u8 ==
    <<"m", "3", "u", "8">>

T_dash ==
    <<"d", "a", "s", "h">>

T_http_dash_segments ==
    <<"h", "t", "t", "p", "_", "d", "a", "s", "h", "_", "s", "e", "g", "m", "e", "n", "t",
      "s">>

T_hls ==
    <<"h", "l", "s">>

T_fragment ==
    <<"f", "r", "a", "g", "m", "e", "n", "t">>

T_none ==
    <<"n", "o", "n", "e">>

T_audio_only ==
    <<"a", "u", "d", "i", "o", " ", "o", "n", "l", "y">>

T_unknown ==
    <<"u", "n", "k", "n", "o", "w", "n">>

T_mp4 ==
    <<"m", "p", "4">>

T_mov ==
    <<"m", "o", "v">>

T_avi ==
    <<"a", "v", "i">>

T_mkv ==
    <<"m", "k", "v">>

T_best ==
    <<"b", "e", "s", "t">>

T_slash_best ==
    <<"/", "b", "e", "s", "t">>

T_sep ==
    <<" ", "-", " ">>

T_standard ==
    <<"S", "t", "a", "n", "d", "a", "r", "d", " ", "q", "u", "a", "l", "i", "t", "y", " ",
      "-", " ">>

T_best_note ==
    <<"B", "e", "s", "t", " ", "a", "v", "a", "i", "l", "a", "b", "l", "e", " ", "q", "u",
      "a", "l", "i", "t", "y", " ", "-", " ", "M", "P", "4", " ", "(", "r", "e", "c", "o",
      "m", "m", "e", "n", "d", "e", "d", ")">>

\* ------------------------------------------------------- string operations
\* str.lower() on one character (ASCII letters; every other character is kept).
LowerChar(ch) ==
    CASE ch = "A" -> "a" [] ch = "B" -> "b" [] ch = "C" -> "c" [] ch = "D" -> "d"
      [] ch = "E" -> "e" [] ch = "F" -> "f" [] ch = "G" -> "g" [] ch = "H" -> "h"
      [] ch = "I" -> "i" [] ch = "J" -> "j" [] ch = "K" -> "k" [] ch = "L" -> "l"
      [] ch = "M" -> "m" [] ch = "N" -> "n" [] ch = "O" -> "o" [] ch = "P" -> "p"
      [] ch = "Q" -> "q" [] ch = "R" -> "r" [] ch = "S" -> "s" [] ch = "T" -> "t"
      [] ch = "U" -> "u" [] ch = "V" -> "v" [] ch = "W" -> "w" [] ch = "X" -> "x"
      [] ch = "Y" -> "y" [] ch = "Z" -> "z" [] OTHER -> ch

\* str.upper() on one character.
UpperChar(ch) ==
    CASE ch = "a" -> "A" [] ch = "b" -> "B" [] ch = "c" -> "C" [] ch = "d" -> "D"
      [] ch = "e" -> "E" [] ch = "f" -> "F" [] ch = "g" -> "G" [] ch = "h" -> "H"
      [] ch = "i" -> "I" [] ch = "j" -> "J" [] ch = "k" -> "K" [] ch = "l" -> "L"
      [] ch = "m" -> "M" [] ch = "n" -> "N" [] ch = "o" -> "O" [] ch = "p" -> "P"
      [] ch = "q" -> "Q" [] ch = "r" -> "R" [] ch = "s" -> "S" [] ch = "t" -> "T"
      [] ch = "u" -> "U" [] ch = "v" -> "V" [] ch = "w" -> "W" [] ch = "x" -> "X"
      [] ch = "y" -> "Y" [] ch = "z" -> "Z" [] OTHER -> ch

\* s.lower()
Lower(s) ==
    [i \in 1..Len(s) |-> LowerChar(s[i])]

\* s.upper()
Upper(s) ==
    [i \in 1..Len(s) |-> UpperChar(s[i])]

\* Python's `sub in s` on strings.
Contains(s, sub) ==
    \E i \in 0..(Len(s) - Len(sub)) :
        \A j \in 1..Len(sub) : s[i + j] = sub[j]

\* One decimal digit as a character.
DigitChar(d) ==
    CASE d = 0 -> "0" [] d = 1 -> "1" [] d = 2 -> "2" [] d = 3 -> "3" [] d = 4 -> "4"
      [] d = 5 -> "5" [] d = 6 -> "6" [] d = 7 -> "7" [] d = 8 -> "8" [] d = 9 -> "9"

RECURSIVE IntStr(_)
\* str(n) of a non-negative int, as f"{n}" renders it.
IntStr(n) ==
    IF n < 10 THEN <<DigitChar(n)>>
    ELSE Append(IntStr(n \div 10), DigitChar(n % 10))

\* ------------------------------------------------------------------- paths
\* settings.DOWNLOAD_DIR: the configured downloads root, an absolute path.
DOWNLOAD_DIR ==
    <<"dl">>

\* A directory outside the downloads root, and a file in it.
OUTSIDE_DIR ==
    <<"etc">>

OUTSIDE_FILE ==
    <<"etc", "passwd">>

\* The result of a path lookup that fails (ENOENT, ENOTDIR).
NoPath ==
    <<"/enoent/">>

\* str(uuid.uuid4()) for the i-th identifier: one path segment, never ".." or "/".
SessName(i) ==
    "s" \o ToString(i)

SessionNames ==
    {SessName(i) : i \in 1..MaxSessions}

\* Names the output template '%(title)s.%(ext)s' can produce.
FileNames ==
    {"v.mp4"}

\* pathlib: Path.parent, purely lexical (".." segments are not collapsed).
Parent(p) ==
    IF p = <<>> THEN <<>> ELSE SubSeq(p, 1, Len(p) - 1)

\* pathlib: `a in p.parents`, purely lexical: a is a proper prefix of p.
InParents(a, p) ==
    Len(a) < Len(p) /\ SubSeq(p, 1, Len(a)) = a

\* pathlib: base / rel, rel the segments of a string; a leading "/" makes rel
\* absolute and it replaces base.
Join(base, rel) ==
    IF rel # <<>> /\ Head(rel) = "/" THEN Tail(rel) ELSE base \o rel

RECURSIVE Walk(_, _, _)
\* POSIX path resolution from the root: every prefix must be an existing
\* directory, ".." steps to the parent of the directory reached so far.
Walk(ds, cur, rest) ==
    IF rest = <<>> THEN cur
    ELSE IF cur \notin ds THEN NoPath
    ELSE Walk(ds,
              IF Head(rest) = ".." THEN Parent(cur) ELSE Append(cur, Head(rest)),
              Tail(rest))

\* The node an absolute path names, or NoPath.
Resolve(ds, p) ==
    Walk(ds, <<>>, p)

\* Path.exists()
PathExists(ds, fs, p) ==
    Resolve(ds, p) \in (ds \cup fs)

\* The nodes strictly below node r.
Below(ds, fs, r) ==
    {n \in ds \cup fs : InParents(r, n)}

\* r itself or a node below it.
Within(r, n) ==
    n = r \/ InParents(r, n)

\* Path.mkdir(exist_ok=True): parents are not created; an existing directory is
\* accepted, an existing file is not.
Mkdir(ds, fs, p) ==
    LET r == Resolve(ds, p) IN
    IF r = NoPath \/ r \in fs THEN [ok |-> FALSE, dirs |-> ds]
    ELSE [ok |-> TRUE, dirs |-> ds \cup {r}]

\* os.remove(p): removes a file; raises on a directory or a missing path, and
\* may fail for reasons of the environment (permissions, I/O).
RemoveOutcomes(ds, fs, p) ==
    LET r == Resolve(ds, p) IN
    {[ok |-> FALSE, files |-> fs]}
        \cup (IF r \in fs THEN {[ok |-> TRUE, files |-> fs \ {r}]} ELSE {})

\* Sets of nodes below r that a removal can have deleted when it stops early:
\* a deleted directory has lost everything below it.
PartialRemovals(ds, fs, r) ==
    {K \in SUBSET Below(ds, fs, r) :
        \A n \in K : \A m \in Below(ds, fs, r) : InParents(n, m) => m \in K}

\* shutil.rmtree(p): the contents are deleted through the opened directory, then
\* os.rmdir(p) looks the path up again: it fails when p ends in ".." or no
\* longer resolves (a segment of p was itself deleted). Any step may fail for
\* reasons of the environment, leaving part of the tree.
RmtreeOutcomes(ds, fs, p) ==
    LET r == Resolve(ds, p)
        sub == Below(ds, fs, r)
        emptied == ds \ sub
    IN  IF r \notin ds THEN {[ok |-> FALSE, dirs |-> ds, files |-> fs]}
        ELSE {[ok |-> FALSE, dirs |-> ds \ K, files |-> fs \ K] :
                  K \in PartialRemovals(ds, fs, r)}
             \cup (IF p # <<>> /\ p[Len(p)] # ".." /\ Resolve(emptied, p) = r
                   THEN {[ok |-> TRUE, dirs |-> emptied \ {r}, files |-> fs \ sub]}
                   ELSE {})

\* Field values of the raw format descriptors used as inputs.
V_https ==
    <<"h", "t", "t", "p", "s">>

V_m3u8_native ==
    <<"m", "3", "u", "8", "_", "n", "a", "t", "i", "v", "e">>

V_h264 ==
    <<"h", "2", "6", "4">>

V_m4a ==
    <<"m", "4", "a">>

V_webm ==
    <<"w", "e", "b", "m">>

V_hd ==
    <<"h", "d">>

V_sd ==
    <<"s", "d">>

V_HD ==
    <<"H", "D">>

V_DASH_video ==
    <<"D", "A", "S", "H", " ", "v", "i", "d", "e", "o">>

V_1280x720 ==
    <<"1", "2", "8", "0", "x", "7", "2", "0">>

V_999 ==
    <<"9", "9", "9">>

V_BEST ==
    <<"B", "E", "S", "T">>

\* ------------------------------------------------------- format normalizer
\* Python's None where a string is expected (no string is equal to it).
PyNone ==
    <<"<None>">>

\* dict.get(key, default): a raw descriptor is a function from its keys.
Get(fmt, key, default) ==
    IF key \in DOMAIN fmt THEN fmt[key] ELSE default

\* Truth value of a string-or-None.
Truthy(s) ==
    s # PyNone /\ s # <<>>

\* Truth value of fmt.get(key) for an integer field (absent, None and 0 are false).
IntTruthy(fmt, key) ==
    key \in DOMAIN fmt /\ fmt[key] # 0

\* An exception: its class and str(e).
Exc(cls, msg) ==
    [cls |-> cls, msg |-> msg]

NoError ==
    Exc("none", <<>>)

\* app.schemas.video.VideoFormat: filesize is Optional (<<>> is None).
VideoFormat(format_id, resolution, ext, filesize, format_note) ==
    [format_id |-> format_id, resolution |-> resolution, ext |-> ext,
     filesize |-> filesize, format_note |-> format_note]

\* Lines 112-117: "WxH" from width and height, else the raw resolution, else the
\* raw format note, else 'unknown'.
ResolutionOf(fmt) ==
    IF IntTruthy(fmt, "height") /\ IntTruthy(fmt, "width")
    THEN IntStr(fmt["width"]) \o <<"x">> \o IntStr(fmt["height"])
    ELSE IF Truthy(Get(fmt, "resolution", PyNone)) THEN fmt["resolution"]
    ELSE IF Truthy(Get(fmt, "format_note", PyNone)) THEN fmt["format_note"]
    ELSE T_unknown

\* Lines 96-136 for one raw descriptor: "raise" with the exception, "skip"
\* (continue) or "keep" with the VideoFormat entry, in the order of the code.
FormatStep(fmt) ==
    LET protocol == Get(fmt, "protocol", <<>>)
        note == Get(fmt, "format_note", <<>>)
        ext == Get(fmt, "ext", T_mp4)
        vcodec == Get(fmt, "vcodec", T_none)
        resolution == ResolutionOf(fmt)
        skip == [kind |-> "skip", exc |-> NoError, entry |-> <<>>]
    IN  IF note = PyNone
        THEN [kind |-> "raise", exc |-> Exc("AttributeError", E_nonetype_lower),
              entry |-> <<>>]
        ELSE IF protocol = PyNone
        THEN [kind |-> "raise", exc |-> Exc("TypeError", E_nonetype_iter),
              entry |-> <<>>]
        ELSE IF \E x \in {T_m3u8, T_dash, T_http_dash_segments} : Contains(protocol, x)
        THEN skip
        ELSE IF \E x \in {T_dash, T_hls, T_fragment} : Contains(Lower(note), x)
        THEN skip
        ELSE IF vcodec = T_none \/ ~Truthy(vcodec)
        THEN skip
        ELSE IF resolution = T_audio_only
        THEN skip
        ELSE IF ext \notin {T_mp4, T_mov, T_avi, T_mkv}
        THEN skip
        ELSE [kind |-> "keep", exc |-> NoError,
              entry |-> VideoFormat(
                  Get(fmt, "format_id", T_best), resolution, ext,
                  IF "filesize" \in DOMAIN fmt THEN <<fmt["filesize"]>> ELSE <<>>,
                  IF IntTruthy(fmt, "height")
                  THEN resolution \o T_sep \o Upper(ext)
                  ELSE T_standard \o Upper(ext))]

RECURSIVE FilterFormats(_)
\* Lines 94-136: the loop over info['formats']; the first descriptor that
\* raises ends it with its exception.
FilterFormats(raw) ==
    IF raw = <<>> THEN [ok |-> TRUE, exc |-> NoError, formats |-> <<>>]
    ELSE LET step == FormatStep(Head(raw))
             rest == FilterFormats(Tail(raw))
         IN  IF step.kind = "raise"
             THEN [ok |-> FALSE, exc |-> step.exc, formats |-> <<>>]
             ELSE IF ~rest.ok THEN rest
             ELSE IF step.kind = "skip" THEN rest
             ELSE [rest EXCEPT !.formats = <<step.entry>> \o rest.formats]

RECURSIVE DedupeFrom(_, _)
DedupeFrom(formats, seen) ==
    IF formats = <<>> THEN <<>>
    ELSE IF Head(formats).resolution \in seen
         THEN DedupeFrom(Tail(formats), seen)
         ELSE <<Head(formats)>>
                  \o DedupeFrom(Tail(formats), seen \cup {Head(formats).resolution})

RECURSIVE DedupeLastSeen(_)
\* Mutant of Dedupe: the last entry of each resolution is kept.
DedupeLastSeen(formats) ==
    IF formats = <<>> THEN <<>>
    ELSE IF \E j \in 2..Len(formats) : formats[j].resolution = Head(formats).resolution
         THEN DedupeLastSeen(Tail(formats))
         ELSE <<Head(formats)>> \o DedupeLastSeen(Tail(formats))

\* Mutant of Dedupe: duplicates are kept.
DedupeNone(formats) ==
    formats

\* Lines 138-145: remove duplicates based on resolution, first seen wins.
Dedupe(formats) ==
    DedupeFrom(formats, {})

\* Lines 147-155: the default "best" option when nothing is left.
WithFallback(formats) ==
    IF formats = <<>>
    THEN <<VideoFormat(T_best, T_best, T_mp4, <<>>, T_best_note)>>
    ELSE formats

\* A raw metadata document: info is None, or a dict whose 'formats' key may be
\* missing (an empty list and None are both false).
Doc(isNone, hasFormats, formats) ==
    [isNone |-> isNone, hasFormats |-> hasFormats, formats |-> formats]

\* Lines 92-169: what the body of the try block makes of a probed document:
\* the returned dict, or the exception it raises.
ProcessInfo(info, download_id) ==
    IF info.isNone
    THEN [ok |-> FALSE, exc |-> Exc("TypeError", E_nonetype_iter), formats |-> <<>>,
          download_id |-> download_id]
    ELSE IF info.hasFormats /\ info.formats # <<>>
    THEN LET f == FilterFormats(info.formats) IN
         IF ~f.ok
         THEN [ok |-> FALSE, exc |-> f.exc, formats |-> <<>>,
               download_id |-> download_id]
         ELSE [ok |-> TRUE, exc |-> NoError,
               formats |-> WithFallback(Dedupe(f.formats)),
               download_id |-> download_id]
    ELSE [ok |-> TRUE, exc |-> NoError, formats |-> WithFallback(<<>>),
          download_id |-> download_id]

\* Error texts of the download capability and of the filesystem.
E_format_long ==
    <<"E", "R", "R", "O", "R", ":", " ", "[", "f", "a", "c", "e", "b", "o", "o", "k", "]",
      " ", "1", ":", " ", "R", "e", "q", "u", "e", "s", "t", "e", "d", " ", "f", "o", "r",
      "m", "a", "t", " ", "i", "s", " ", "n", "o", "t", " ", "a", "v", "a", "i", "l", "a",
      "b", "l", "e", ".", " ", "U", "s", "e", " ", "-", "-", "l", "i", "s", "t", "-", "f",
      "o", "r", "m", "a", "t", "s">>

E_http403 ==
    <<"H", "T", "T", "P", " ", "E", "r", "r", "o", "r", " ", "4", "0", "3", ":", " ", "F",
      "o", "r", "b", "i", "d", "d", "e", "n">>

E_timeout ==
    <<"t", "i", "m", "e", "d", " ", "o", "u", "t">>

E_enoent ==
    <<"[", "E", "r", "r", "n", "o", " ", "2", "]", " ", "N", "o", " ", "s", "u", "c", "h",
      " ", "f", "i", "l", "e", " ", "o", "r", " ", "d", "i", "r", "e", "c", "t", "o", "r",
      "y">>

E_eacces ==
    <<"[", "E", "r", "r", "n", "o", " ", "1", "3", "]", " ", "P", "e", "r", "m", "i", "s",
      "s", "i", "o", "n", " ", "d", "e", "n", "i", "e", "d">>

\* ------------------------------------------------------------------ inputs
\* URLs a caller passes to extract_video_info in Spec: one in scope (only after
\* lower()), two out of scope.
Urls ==
    {U_upper, U_other, U_near}

\* Raw format descriptors (dicts of the extraction engine).
RawHd ==
    [format_id |-> V_hd, height |-> 720, width |-> 1280, ext |-> T_mp4,
     vcodec |-> V_h264, protocol |-> V_https]

RawHls ==
    [format_id |-> V_sd, height |-> 720, width |-> 1280, ext |-> T_mp4,
     vcodec |-> V_h264, protocol |-> V_m3u8_native]

RawAudio ==
    [vcodec |-> T_none, ext |-> V_m4a]

RawResolutionString ==
    [format_id |-> V_sd, resolution |-> V_1280x720, ext |-> T_mp4,
     vcodec |-> V_h264, protocol |-> V_https, filesize |-> 5]

RawDashNote ==
    [format_id |-> V_sd, format_note |-> V_DASH_video, ext |-> T_mp4,
     vcodec |-> V_h264, protocol |-> V_https]

RawNoneNote ==
    [format_id |-> V_hd, format_note |-> PyNone, ext |-> T_mp4,
     vcodec |-> V_h264, protocol |-> V_https]

RawWebm ==
    [format_id |-> V_sd, height |-> 360, width |-> 640, ext |-> V_webm,
     vcodec |-> V_h264, protocol |-> V_https]

RawSd ==
    [format_id |-> V_sd, height |-> 360, width |-> 640, ext |-> T_mov,
     vcodec |-> V_h264, protocol |-> V_https]

RawBare ==
    [vcodec |-> V_h264, protocol |-> V_https]

RawNoteOnly ==
    [format_id |-> V_hd, format_note |-> V_HD, vcodec |-> V_h264]

RawAudioOnlyResolution ==
    [format_id |-> V_sd, resolution |-> T_audio_only, vcodec |-> V_h264, ext |-> T_mp4]

RawHeightOnly ==
    [format_id |-> V_hd, height |-> 720, vcodec |-> V_h264, ext |-> T_mp4]

\* An audio-only descriptor whose format note is None.
RawAudioNoneNote ==
    [format_note |-> PyNone, vcodec |-> T_none, ext |-> V_m4a]

RawDescs ==
    {RawHd, RawHls, RawAudio, RawResolutionString, RawDashNote, RawNoneNote, RawWebm,
     RawSd, RawBare, RawNoteOnly, RawAudioOnlyResolution, RawHeightOnly,
     RawAudioNoneNote}

\* Sequences over S of length at most n.
SeqsUpTo(S, n) ==
    UNION {[1..k -> S] : k \in 0..n}

\* Outcome of one call of the extraction engine.
Failed(exc) ==
    [ok |-> FALSE, exc |-> exc, info |-> Doc(TRUE, FALSE, <<>>), name |-> ""]

Probed(info) ==
    [ok |-> TRUE, exc |-> NoError, info |-> info, name |-> ""]

Fetched(name) ==
    [ok |-> TRUE, exc |-> NoError, info |-> Doc(FALSE, FALSE, <<>>), name |-> name]

\* Errors a probe can raise (extract_info, download=False).
ProbeErrors ==
    {Exc("DownloadError", E_parse), Exc("DownloadError", E_login),
     Exc("Exception", E_http)}

\* What a probe can return or raise in Spec: a few documents, among them one
\* without formats and one with a None format note.
ProbeOutcomes ==
    {Failed(e) : e \in ProbeErrors}
        \cup {Probed(Doc(FALSE, TRUE, <<RawHd, RawResolutionString>>)),
              Probed(Doc(FALSE, FALSE, <<>>)),
              Probed(Doc(FALSE, TRUE, <<RawHd, RawNoneNote>>))}

\* The documents a probe returns in SpecNorm: every raw format list of at most
\* MaxFormats descriptors.
NormDocuments ==
    {Probed(Doc(FALSE, TRUE, raw)) : raw \in SeqsUpTo(RawDescs, MaxFormats)}

\* Identifier strings a caller passes to download_video, as path segments: the
\* generated ones, the empty string, and strings with ".." or a leading "/".
DownloadIds ==
    {<<n>> : n \in SessionNames}
        \cup {<<>>, <<"..", "etc">>, <<"/", "etc">>, <<SessName(1), "..">>}

FormatIds ==
    {<<>>, T_best, V_999, V_BEST}

\* Errors a fetch can raise (extract_info, download=True).
FetchErrors ==
    {Exc("DownloadError", E_format_long), Exc("DownloadError", E_http403),
     Exc("Exception", E_timeout), Exc("Exception", E_format)}

FetchOutcomes ==
    {Failed(e) : e \in FetchErrors} \cup {Fetched(n) : n \in FileNames}

\* Paths a caller passes to cleanup_download: what download_video returns for
\* the identifiers above, those directories themselves, and a file outside.
CleanupPaths ==
    {Join(DOWNLOAD_DIR, id) \o <<n>> : id \in DownloadIds, n \in FileNames}
        \cup {Join(DOWNLOAD_DIR, id) : id \in DownloadIds}
        \cup {OUTSIDE_FILE, DOWNLOAD_DIR \o <<SessName(1), "..", "..", "etc", "passwd">>}

\* ------------------------------------------------------------------- state
VARIABLES
    dirs,   \* the directories that exist (canonical paths; <<>> is "/")
    files,  \* the files that exist (canonical paths)
    used,   \* the identifiers in use so far: produced by uuid4 or passed by a caller
    call    \* per caller thread: the call in progress, its locals and its result

vars ==
    <<dirs, files, used, call>>

\* Threads of the hosting service that run calls of the core.
Calls ==
    {"c1", "c2"}

\* Mutant of Strategies: the mobile fingerprint is tried first.
StrategiesMobileFirst ==
    <<"mobile", "desktop", "extractor_hinted">>

\* The strategy catalog, lines 40-82, by request fingerprint.
Strategies ==
    <<"desktop", "extractor_hinted", "mobile">>

\* What a call gave its caller: nothing yet, a value, or a raised exception.
NoRet ==
    [kind |-> "none", exc |-> NoError, path |-> NoPath, formats |-> <<>>,
     download_id |-> ""]

Raised(exc) ==
    [NoRet EXCEPT !.kind = "raise", !.exc = exc]

ReturnedPath(p) ==
    [NoRet EXCEPT !.kind = "value", !.path = p]

ReturnedInfo(r) ==
    [NoRet EXCEPT !.kind = "value", !.formats = r.formats, !.download_id = r.download_id]

ReturnedNone ==
    [NoRet EXCEPT !.kind = "value"]

\* A thread with no call in progress. issued records the strategies whose probe
\* was issued, in_flight those whose probe has not returned yet; probe_log and
\* fetch_log record the calls the extraction engine has answered, with their
\* outcomes; written and removed record the nodes the call
\* has created or written and has deleted; the dir_exists of a fetch_log entry
\* records whether the scratch directory existed when that fetch was issued;
\* dir_at_return records whether
\* the scratch directory existed when the call returned.
Idle ==
    [op |-> "idle", pc |-> "idle", url |-> <<>>, download_id |-> "",
     download_path |-> NoPath, last_error |-> NoError,
     format_id |-> <<>>, format_selector |-> <<>>, file_path |-> NoPath,
     issued |-> <<>>, in_flight |-> {},
     probe_log |-> <<>>, fetch_log |-> <<>>, written |-> {}, removed |-> {},
     rm_failed |-> FALSE, dir_at_return |-> FALSE, logged |-> NoError, ret |-> NoRet]

Init ==
    /\ dirs = {<<>>, DOWNLOAD_DIR, OUTSIDE_DIR}
    /\ files = {OUTSIDE_FILE}
    /\ used = {}
    /\ call = [c \in Calls |-> Idle]

\* The call of thread c ends: its locals become cl, with the result ret.
Return(cl, ret, ds, fs) ==
    [cl EXCEPT !.pc = "done", !.ret = ret,
               !.dir_at_return = PathExists(ds, fs, cl.download_path)]

\* ---------------------------------------------------------- URL classifier
\* Mutant of facebook_patterns: "fb.co" for "fb.com".
facebook_patterns_typo ==
    {P_facebook_com, SubSeq(P_fb_com, 1, 5), P_fb_watch, P_m_facebook_com}

\* Lines 21-26.
facebook_patterns ==
    {P_facebook_com, P_fb_com, P_fb_watch, P_m_facebook_com}

\* Lines 17-27.
validate_facebook_url(url) ==
    \E pattern \in facebook_patterns : Contains(Lower(url), pattern)

\* ------------------------------------------------- extraction orchestrator
\* Lines 32-37: reject an out-of-scope URL, else take a fresh identifier and
\* create its scratch directory (a mkdir failure propagates).
ExtractStart(c, url) ==
    /\ call[c].op = "idle"
    /\ IF ~validate_facebook_url(url)
       THEN /\ call' = [call EXCEPT ![c] =
                   Return([Idle EXCEPT !.op = "extract", !.url = url],
                          Raised(Exc("ValueError", M_invalid_url)), dirs, files)]
            /\ UNCHANGED <<dirs, files, used>>
       ELSE \E id \in SessionNames \ used :
              LET path == Join(DOWNLOAD_DIR, <<id>>)
                  m == Mkdir(dirs, files, path)
                  cl == [Idle EXCEPT !.op = "extract", !.url = url,
                                     !.download_id = id, !.download_path = path,
                                     !.written = m.dirs \ dirs]
              IN  /\ used' = used \cup {id}
                  /\ dirs' = m.dirs
                  /\ UNCHANGED files
                  /\ call' = [call EXCEPT ![c] =
                         IF m.ok THEN [cl EXCEPT !.pc = "probe"]
                         ELSE Return(cl, Raised(Exc("OSError", E_enoent)), m.dirs, files)]

\* Lines 85-89: the loop takes the next strategy of the catalog and calls
\* ydl.extract_info(url, download=False) with it; the call blocks the thread.
ProbeIssue(c) ==
    LET cl == call[c]
        idx == Len(cl.probe_log) + 1
    IN  /\ cl.op = "extract"
        /\ cl.pc = "probe"
        /\ call' = [call EXCEPT ![c] =
               [cl EXCEPT !.pc = "probing",
                          !.issued = Append(@, Strategies[idx]),
                          !.in_flight = @ \cup {Strategies[idx]}]]
        /\ UNCHANGED <<dirs, files, used>>

\* Lines 89-173: the probe in flight returns with outcome o. A document is
\* processed inside the try block; an exception of the probe or of the
\* processing is kept as last_error and the loop goes on; after the last
\* strategy the failure path begins.
Probe(c, o) ==
    LET cl == call[c]
        idx == Len(cl.probe_log) + 1
        logged == [cl EXCEPT !.probe_log =
                      Append(@, [strategy |-> Strategies[idx], outcome |-> o]),
                             !.in_flight = @ \ {Strategies[idx]}]
        r == IF o.ok THEN ProcessInfo(o.info, cl.download_id)
             ELSE [ok |-> FALSE, exc |-> o.exc, formats |-> <<>>,
                   download_id |-> cl.download_id]
    IN  /\ cl.op = "extract"
        /\ cl.pc = "probing"
        /\ call' = [call EXCEPT ![c] =
               IF r.ok THEN Return(logged, ReturnedInfo(r), dirs, files)
               ELSE [logged EXCEPT !.last_error = r.exc,
                                   !.pc = IF idx = Len(Strategies)
                                          THEN "exists" ELSE "probe"]]
        /\ UNCHANGED <<dirs, files, used>>

\* Lines 183-196: the message chosen from str(last_error).
ClassifyError(last_error) ==
    LET error_str == last_error.msg IN
    IF Contains(error_str, K_cannot_parse)
           \/ Contains(Lower(error_str), K_unable_to_extract)
    THEN Exc("ValueError", M_guidance)
    ELSE IF Contains(error_str, K_private_video) \/ Contains(Lower(error_str), K_login)
    THEN Exc("ValueError", M_private)
    ELSE Exc("ValueError", M_could_not_process \o error_str)

\* Mutant of NeedsRemoval: the failure path leaves the directory behind.
NeedsRemovalNever(ds, fs, path) ==
    FALSE

\* Line 179: the scratch directory is removed if it exists.
NeedsRemoval(ds, fs, path) ==
    PathExists(ds, fs, path)

\* Line 179: download_path.exists(); without the directory the classified
\* error is raised at once.
ExtractExists(c) ==
    LET cl == call[c] IN
    /\ cl.op = "extract"
    /\ cl.pc = "exists"
    /\ call' = [call EXCEPT ![c] =
           IF NeedsRemoval(dirs, files, cl.download_path)
           THEN [cl EXCEPT !.pc = "rmtree"]
           ELSE Return(cl, Raised(ClassifyError(cl.last_error)), dirs, files)]
    /\ UNCHANGED <<dirs, files, used>>

\* Mutant of ScratchToRemove: the failure path removes the parent directory.
ScratchToRemoveParent(download_path) ==
    Parent(download_path)

\* Line 180: the directory the failure path removes.
ScratchToRemove(download_path) ==
    download_path

\* Lines 180-196: shutil.rmtree(download_path), outside any try block: its
\* exception propagates; otherwise the classified error is raised.
ExtractRmtree(c) ==
    LET cl == call[c] IN
    /\ cl.op = "extract"
    /\ cl.pc = "rmtree"
    /\ \E out \in RmtreeOutcomes(dirs, files, ScratchToRemove(cl.download_path)) :
          LET after == [cl EXCEPT !.removed = (dirs \cup files) \ (out.dirs \cup out.files),
                                  !.rm_failed = ~out.ok]
          IN  /\ dirs' = out.dirs
              /\ files' = out.files
              /\ call' = [call EXCEPT ![c] =
                     Return(after,
                            IF out.ok THEN Raised(ClassifyError(cl.last_error))
                            ELSE Raised(Exc("OSError", E_eacces)),
                            out.dirs, out.files)]
    /\ UNCHANGED used

\* ---------------------------------------------------- download orchestrator
\* Mutant of FormatSelector: the sentinel is compared without regard to case.
FormatSelectorAnyCase(format_id) ==
    IF Lower(format_id) = T_best \/ ~Truthy(format_id) THEN T_best
    ELSE format_id \o T_slash_best

\* Lines 207-211: the format selector of the first fetch.
FormatSelector(format_id) ==
    IF format_id = T_best \/ ~Truthy(format_id) THEN T_best
    ELSE format_id \o T_slash_best

\* Mutant of NeedsMkdir: the directory is never created by the download.
NeedsMkdirNever(ds, fs, path) ==
    FALSE

\* Line 202: the scratch directory is created when it does not exist.
NeedsMkdir(ds, fs, path) ==
    ~PathExists(ds, fs, path)

\* Lines 201-202: the scratch directory of the caller's identifier, and whether
\* it exists. An identifier a caller has passed is one uuid4 never returns
\* afterwards.
DownloadStart(c, url, id, format_id) ==
    /\ call[c].op = "idle"
    /\ LET path == Join(DOWNLOAD_DIR, id)
           cl == [Idle EXCEPT !.op = "download", !.url = url, !.download_path = path,
                              !.format_id = format_id,
                              !.format_selector = FormatSelector(format_id)]
       IN  call' = [call EXCEPT ![c] =
               [cl EXCEPT !.pc = IF NeedsMkdir(dirs, files, path)
                                 THEN "mkdir" ELSE "fetch"]]
    /\ used' = used \cup {n \in SessionNames : id = <<n>>}
    /\ UNCHANGED <<dirs, files>>

\* Line 203: download_path.mkdir(exist_ok=True), outside the try block.
DownloadMkdir(c) ==
    LET cl == call[c]
        m == Mkdir(dirs, files, cl.download_path)
        made == [cl EXCEPT !.written = m.dirs \ dirs]
    IN  /\ cl.op = "download"
        /\ cl.pc = "mkdir"
        /\ dirs' = m.dirs
        /\ call' = [call EXCEPT ![c] =
               IF m.ok THEN [made EXCEPT !.pc = "fetch"]
               ELSE Return(made, Raised(Exc("OSError", E_enoent)), m.dirs, files)]
        /\ UNCHANGED <<files, used>>

\* Line 233: the failure that is retried.
FormatUnavailable(exc) ==
    exc.cls = "DownloadError" /\ Contains(exc.msg, K_format_unavailable)

\* Mutant of RetrySelector: the retry repeats the selector of the first fetch.
RetrySelectorKept(format_selector) ==
    format_selector

\* Line 235: the selector of the retry.
RetrySelector(format_selector) ==
    T_best

\* Line 243: the error of a failed retry.
RetryFailed(msg) ==
    Exc("ValueError", M_any_format \o msg)

\* Mutant of DownloadFailed: the underlying message is dropped.
DownloadFailedNoDetail(msg) ==
    Exc("ValueError", M_download_failed)

\* Line 246: the error of a download failure that is not retried.
DownloadFailed(msg) ==
    Exc("ValueError", M_download_failed \o msg)

\* Line 249: the error of any other exception of the first fetch.
UnexpectedError(msg) ==
    Exc("ValueError", M_unexpected \o msg)

\* A fetch can succeed when its output directory can be reached: it writes the
\* file there, creating the directory if it is missing.
CanWrite(ds, fs, path, name) ==
    LET r == Resolve(ds, path) IN
    r # NoPath /\ r \notin fs /\ Append(r, name) \notin ds

\* Mutant of AfterFailedFetch: a failed download removes its scratch directory,
\* as a failed extraction does.
AfterFailedFetchRemoves(ds, fs, path) ==
    LET r == Resolve(ds, path) IN
    [dirs |-> {n \in ds : ~Within(r, n)}, files |-> {n \in fs : ~Within(r, n)}]

\* Lines 241-249: the handlers of a terminal failure log and raise; they leave
\* the filesystem as it is.
AfterFailedFetch(ds, fs, path) ==
    [dirs |-> ds, files |-> fs]

\* Lines 225-249: one fetch with the current selector and outcome o. The first
\* fetch is retried once with 'best' when it raises a DownloadError whose text
\* says the format is not available; every other failure is terminal.
Fetch(c, o) ==
    LET cl == call[c]
        r == Resolve(dirs, cl.download_path)
        first == cl.fetch_log = <<>>
        retried == ~o.ok /\ first /\ FormatUnavailable(o.exc)
        logged == [cl EXCEPT !.fetch_log =
                      Append(@, [selector |-> cl.format_selector, outcome |-> o,
                                 dir_exists |-> r \in dirs])]
        wrote == [logged EXCEPT !.written =
                      @ \cup ({r} \ dirs) \cup {Append(r, o.name)}]
    IN  /\ cl.op = "download"
        /\ cl.pc = "fetch"
        /\ o.ok => CanWrite(dirs, files, cl.download_path, o.name)
        /\ dirs' = IF o.ok THEN dirs \cup {r}
                   ELSE IF retried THEN dirs
                   ELSE AfterFailedFetch(dirs, files, cl.download_path).dirs
        /\ files' = IF o.ok THEN files \cup {Append(r, o.name)}
                    ELSE IF retried THEN files
                    ELSE AfterFailedFetch(dirs, files, cl.download_path).files
        /\ call' = [call EXCEPT ![c] =
               IF o.ok
               THEN Return(wrote, ReturnedPath(Append(cl.download_path, o.name)),
                           dirs', files')
               ELSE IF ~first
               THEN Return(logged, Raised(RetryFailed(o.exc.msg)), dirs', files')
               ELSE IF o.exc.cls # "DownloadError"
               THEN Return(logged, Raised(UnexpectedError(o.exc.msg)), dirs', files')
               ELSE IF FormatUnavailable(o.exc)
               THEN [logged EXCEPT !.format_selector = RetrySelector(@)]
               ELSE Return(logged, Raised(DownloadFailed(o.exc.msg)), dirs', files')]
        /\ UNCHANGED used

\* ------------------------------------------------------------------ cleanup
\* Line 255: file_path.exists()
CleanupStart(c, file_path) ==
    /\ call[c].op = "idle"
    /\ call' = [call EXCEPT ![c] =
           [Idle EXCEPT !.op = "cleanup", !.file_path = file_path,
                        !.pc = IF PathExists(dirs, files, file_path)
                               THEN "remove" ELSE "parent"]]
    /\ UNCHANGED <<dirs, files, used>>

\* Mutant of CleanupFailed: the exception reaches the caller.
CleanupFailedRaises(exc) ==
    Raised(exc)

\* Lines 262-263: `except Exception` logs the error; the call returns None.
CleanupFailed(exc) ==
    ReturnedNone

\* Line 256: os.remove(file_path); its exception is logged and ends the call.
CleanupRemove(c) ==
    LET cl == call[c] IN
    /\ cl.op = "cleanup"
    /\ cl.pc = "remove"
    /\ \E out \in RemoveOutcomes(dirs, files, cl.file_path) :
          /\ files' = out.files
          /\ call' = [call EXCEPT ![c] =
                 IF out.ok
                 THEN [cl EXCEPT !.pc = "parent", !.removed = files \ out.files]
                 ELSE Return([cl EXCEPT !.rm_failed = TRUE,
                                        !.logged = Exc("OSError", E_eacces)],
                             CleanupFailed(Exc("OSError", E_eacces)), dirs, out.files)]
    /\ UNCHANGED <<dirs, used>>

\* Line 259: parent_dir = file_path.parent
ParentDir(file_path) ==
    Parent(file_path)

\* Lines 259-260: the parent directory is removed only if it exists and the
\* downloads root is among its (lexical) parents.
CleanupParent(c) ==
    LET cl == call[c]
        parent_dir == ParentDir(cl.file_path)
    IN  /\ cl.op = "cleanup"
        /\ cl.pc = "parent"
        /\ call' = [call EXCEPT ![c] =
               IF PathExists(dirs, files, parent_dir)
                      /\ InParents(DOWNLOAD_DIR, parent_dir)
               THEN [cl EXCEPT !.pc = "rmtree"]
               ELSE Return(cl, ReturnedNone, dirs, files)]
        /\ UNCHANGED <<dirs, files, used>>

\* Line 261: shutil.rmtree(parent_dir); its exception is logged.
CleanupRmtree(c) ==
    LET cl == call[c] IN
    /\ cl.op = "cleanup"
    /\ cl.pc = "rmtree"
    /\ \E out \in RmtreeOutcomes(dirs, files, ParentDir(cl.file_path)) :
          /\ dirs' = out.dirs
          /\ files' = out.files
          /\ call' = [call EXCEPT ![c] =
                 Return([cl EXCEPT !.removed =
                                @ \cup ((dirs \cup files) \ (out.dirs \cup out.files)),
                            !.rm_failed = ~out.ok,
                            !.logged = IF out.ok THEN NoError
                                       ELSE Exc("OSError", E_eacces)],
                        IF out.ok THEN ReturnedNone
                        ELSE CleanupFailed(Exc("OSError", E_eacces)),
                        out.dirs, out.files)]
    /\ UNCHANGED used

\* The caller takes the result; the thread is free for the next call.
Finish(c) ==
    /\ call[c].pc = "done"
    /\ call' = [call EXCEPT ![c] = Idle]
    /\ UNCHANGED <<dirs, files, used>>

\* ----------------------------------------------------------- specifications
\* The inputs of the calls and the outcomes of the extraction engine.
Inputs(urls, probes, ids, format_ids, fetches, paths) ==
    [urls |-> urls, probes |-> probes, ids |-> ids, format_ids |-> format_ids,
     fetches |-> fetches, paths |-> paths]

\* One step of a call of thread c.
Step(c, in) ==
    \/ \E url \in in.urls : ExtractStart(c, url)
    \/ ProbeIssue(c)
    \/ \E o \in in.probes : Probe(c, o)
    \/ ExtractExists(c)
    \/ ExtractRmtree(c)
    \/ \E id \in in.ids, f \in in.format_ids : DownloadStart(c, U_reel, id, f)
    \/ DownloadMkdir(c)
    \/ \E o \in in.fetches : Fetch(c, o)
    \/ \E p \in in.paths : CleanupStart(c, p)
    \/ CleanupRemove(c)
    \/ CleanupParent(c)
    \/ CleanupRmtree(c)
    \/ Finish(c)

\* Spec: one thread, every sequence of completed calls, with adversarial
\* identifiers and paths.
Next ==
    Step("c1", Inputs(Urls, ProbeOutcomes, DownloadIds, FormatIds, FetchOutcomes,
                      CleanupPaths))

Spec ==
    Init /\ [][Next]_vars

\* SpecNorm: extractions of one thread in which the first strategy returns any
\* raw format list of at most MaxFormats descriptors and the later strategies
\* fail.
NextNorm ==
    \/ ExtractStart("c1", U_reel)
    \/ ProbeIssue("c1")
    \/ \E o \in NormDocuments : call["c1"].probe_log = <<>> /\ Probe("c1", o)
    \/ \E msg \in {E_private, E_extract} :
           call["c1"].probe_log # <<>> /\ Probe("c1", Failed(Exc("DownloadError", msg)))
    \/ ExtractExists("c1")
    \/ ExtractRmtree("c1")
    \/ Finish("c1")

SpecNorm ==
    Init /\ [][NextNorm]_vars

\* SpecConc: two threads whose calls interleave at every filesystem and
\* network operation, on generated identifiers, with one path that leaves the
\* session directory through "..".
ConcInputs ==
    Inputs({U_reel},
           {Failed(Exc("DownloadError", E_parse)),
            Probed(Doc(FALSE, TRUE, <<RawHd>>))},
           {<<n>> : n \in SessionNames},
           {T_best},
           {Failed(Exc("DownloadError", E_http403))} \cup {Fetched(n) : n \in FileNames},
           {DOWNLOAD_DIR \o <<s, n>> : s \in SessionNames, n \in FileNames}
               \cup {DOWNLOAD_DIR \o <<SessName(1), "..", SessName(2), "v.mp4">>})

NextConc ==
    \E c \in Calls : Step(c, ConcInputs)

SpecConc ==
    Init /\ [][NextConc]_vars

\* ------------------------------------------------------------------ claims
\* C1: cleanup_download deletes no file and no directory that is not a
\* descendant of the downloads root, whatever path it is given.
C1_CleanupDeletesOnlyUnderRoot ==
    \A c \in Calls :
        call[c].op = "cleanup" =>
            \A n \in call[c].removed : InParents(DOWNLOAD_DIR, n)

\* C2: once the probe of a strategy has returned a document without error, the
\* call is over with a result and that probe was the last one, whatever the
\* document holds.
C2_FirstDocumentEndsLoop ==
    \A c \in Calls :
        \A k \in 1..Len(call[c].probe_log) :
            call[c].probe_log[k].outcome.ok =>
                /\ Len(call[c].probe_log) = k
                /\ call[c].pc = "done"
                /\ call[c].ret.kind = "value"

\* The first fetch of call c failed with the error that is retried.
FirstFetchUnavailable(c) ==
    /\ call[c].op = "download"
    /\ call[c].fetch_log # <<>>
    /\ ~call[c].fetch_log[1].outcome.ok
    /\ FormatUnavailable(call[c].fetch_log[1].outcome.exc)

\* C3: after a first fetch that failed with "Requested format is not
\* available", the retry is pending with the selector 'best', or the call is
\* over after exactly two fetches, the second with the selector 'best', and a
\* successful retry's output path is what the caller gets.
C3_RetryOnceWithBest ==
    \A c \in Calls :
        FirstFetchUnavailable(c) =>
            LET log == call[c].fetch_log IN
            \/ /\ call[c].pc = "fetch"
               /\ Len(log) = 1
               /\ call[c].format_selector = T_best
            \/ /\ call[c].pc = "done"
               /\ Len(log) = 2
               /\ log[2].selector = T_best
               /\ log[2].outcome.ok =>
                      /\ call[c].ret.kind = "value"
                      /\ call[c].ret.path
                             = Append(call[c].download_path, log[2].outcome.name)

\* C3 witness: a download of format "999" whose first fetch, with "999/best",
\* was refused and whose retry succeeded.
C3_Witness ==
    \E c \in Calls :
        /\ FirstFetchUnavailable(c)
        /\ call[c].pc = "done"
        /\ call[c].fetch_log[1].selector = V_999 \o T_slash_best
        /\ Len(call[c].fetch_log) = 2
        /\ call[c].fetch_log[2].outcome.ok
        /\ call[c].ret.kind = "value"

\* The attempt logged in e failed: the probe raised, or the processing of its
\* document did.
AttemptFailed(e, download_id) ==
    ~e.outcome.ok \/ ~ProcessInfo(e.outcome.info, download_id).ok

\* Call c is an extraction that has returned after every strategy failed.
Exhausted(c) ==
    /\ call[c].op = "extract"
    /\ call[c].pc = "done"
    /\ Len(call[c].probe_log) = Len(Strategies)
    /\ \A k \in 1..Len(Strategies) :
           AttemptFailed(call[c].probe_log[k], call[c].download_id)

\* C4 as claimed: after every strategy failed the call returns an error and
\* the scratch directory does not exist at that moment.
C4_ScratchGoneOnExhaustion ==
    \A c \in Calls :
        Exhausted(c) => call[c].ret.kind = "raise" /\ ~call[c].dir_at_return

\* C4 as amended: after every strategy failed the call returns an error, and
\* the scratch directory does not exist at that moment unless its removal
\* itself failed.
C4_ScratchGoneUnlessRemovalFailed ==
    \A c \in Calls :
        Exhausted(c) =>
            /\ call[c].ret.kind = "raise"
            /\ call[c].dir_at_return => call[c].rm_failed

\* C4 witness: an exhausted extraction whose directory was removed.
C4_Witness ==
    \E c \in Calls :
        /\ Exhausted(c)
        /\ call[c].removed = {call[c].download_path}
        /\ ~call[c].dir_at_return
        /\ call[c].ret.exc.cls = "ValueError"

\* No in-scope domain occurs in url, compared character by character without
\* regard to case.
OutOfScope(url) ==
    \A d \in {P_facebook_com, P_fb_com, P_fb_watch, P_m_facebook_com} :
        \A i \in 0..Len(url) :
            \E j \in 1..Len(d) :
                i + j > Len(url) \/ LowerChar(url[i + j]) # d[j]

\* C5: an extraction of a URL with no in-scope domain is over at once with
\* the invalid-URL error: no probe, no identifier, no directory; and the
\* classifier answers false.
C5_OutOfScopeRejectedFirst ==
    \A c \in Calls :
        call[c].op = "extract" /\ OutOfScope(call[c].url) =>
            /\ ~validate_facebook_url(call[c].url)
            /\ call[c].pc = "done"
            /\ call[c].ret = Raised(Exc("ValueError", M_invalid_url))
            /\ call[c].probe_log = <<>>
            /\ call[c].download_id = ""
            /\ call[c].download_path = NoPath
            /\ call[c].written = {}

\* C5 witness: the near-miss URL "fb.co/m" was rejected.
C5_Witness ==
    \E c \in Calls :
        /\ call[c].op = "extract"
        /\ call[c].url = U_near
        /\ call[c].ret.kind = "raise"

\* C6: the format list an extraction returns is not empty and no two of its
\* entries have the same resolution.
C6_FormatsUniqueNonEmpty ==
    \A c \in Calls :
        (call[c].op = "extract" /\ call[c].ret.kind = "value") =>
            LET formats == call[c].ret.formats IN
            /\ formats # <<>>
            /\ \A i, j \in 1..Len(formats) :
                   i # j => formats[i].resolution # formats[j].resolution

\* C6 witness: a result of one entry from a raw list of two descriptors with
\* the resolution "1280x720", one computed and one given as a string.
C6_Witness ==
    \E c \in Calls :
        /\ call[c].op = "extract"
        /\ call[c].ret.kind = "value"
        /\ call[c].probe_log[1].outcome.info.formats
               = <<RawHd, RawResolutionString>>
        /\ Len(call[c].ret.formats) = 1

\* The session directory a call belongs to: the scratch directory of an
\* extraction or a download, the directory of the file given to a cleanup; none
\* when the path is not that of a session.
path_of_session(cl) ==
    IF cl.op \in {"extract", "download"} THEN cl.download_path
    ELSE IF cl.op = "cleanup" /\ Len(cl.file_path) = Len(DOWNLOAD_DIR) + 2
              /\ cl.file_path[Len(cl.file_path)] # ".."
    THEN Parent(cl.file_path)
    ELSE NoPath

\* path is a direct child of the downloads root.
DirectChild(path) ==
    /\ Len(path) = Len(DOWNLOAD_DIR) + 1
    /\ Parent(path) = DOWNLOAD_DIR
    /\ path[Len(path)] # ".."

\* C8: the scratch directory of every extraction and every download is a
\* direct child of the downloads root, whatever identifier the caller gave.
C8_ScratchIsDirectChild ==
    \A c \in Calls :
        call[c].op \in {"extract", "download"} /\ call[c].download_path # NoPath =>
            DirectChild(call[c].download_path)

\* The session directories other than that of call c, when c belongs to one.
OtherSessions(c) ==
    IF path_of_session(call[c]) # NoPath /\ DirectChild(path_of_session(call[c]))
    THEN {DOWNLOAD_DIR \o <<t>> : t \in SessionNames} \ {path_of_session(call[c])}
    ELSE {}

\* C7: in every interleaving, a call that belongs to a session has created,
\* written and deleted nothing in the directory of another session.
C7_SessionsDoNotCollide ==
    \A c \in Calls :
        \A other \in OtherSessions(c) :
            \A n \in call[c].written \cup call[c].removed : ~Within(other, n)

\* C7 witness: while one call has written its file into its session directory
\* and is not yet over, a concurrent call of another session has removed its
\* own directory, and the file of the first is still there.
C7_Witness ==
    \E c, d \in Calls :
        /\ c # d
        /\ OtherSessions(c) # {} /\ OtherSessions(d) # {}
        /\ path_of_session(call[c]) # path_of_session(call[d])
        /\ path_of_session(call[c]) \in call[c].removed
        /\ call[d].op = "download"
        /\ \E n \in call[d].written : n \in files

\* C9: when every strategy failed and the removal of the scratch directory
\* failed too, the caller still gets the error classified from the last
\* strategy failure.
C9_ClassifiedErrorDespiteRemovalFailure ==
    \A c \in Calls :
        Exhausted(c) /\ call[c].rm_failed =>
            call[c].ret = Raised(ClassifyError(call[c].last_error))

\* C10: a download issues at most two fetches; a first failure that is not
\* "format not available" ends the call after one fetch, a failed retry ends
\* it after two, each with an error that carries the underlying message.
C10_AtMostTwoFetches ==
    \A c \in Calls :
        LET log == call[c].fetch_log IN
        /\ Len(log) <= 2
        /\ \A k \in 1..Len(log) :
               (~log[k].outcome.ok /\ (k = 2 \/ ~FormatUnavailable(log[k].outcome.exc))) =>
                   /\ Len(log) = k
                   /\ call[c].pc = "done"
                   /\ call[c].ret.kind = "raise"
                   /\ Contains(call[c].ret.exc.msg, log[k].outcome.exc.msg)

\* C10 witness: a download that ended after a failed retry.
C10_Witness ==
    \E c \in Calls :
        /\ call[c].pc = "done"
        /\ Len(call[c].fetch_log) = 2
        /\ ~call[c].fetch_log[2].outcome.ok
        /\ call[c].ret.kind = "raise"

\* str(e) of the failure of the attempt logged in e: the exception the probe
\* raised, or the one the processing of its document raised.
AttemptError(e, download_id) ==
    IF ~e.outcome.ok THEN e.outcome.exc.msg
    ELSE ProcessInfo(e.outcome.info, download_id).exc.msg

\* The message C11 assigns to an error text: guidance for the parse and
\* extraction-blocked patterns, else access-restricted for the private and
\* login patterns, else the generic message followed by the text.
MessageFor(text) ==
    LET blocked == Contains(text, K_cannot_parse)
                       \/ Contains(Lower(text), K_unable_to_extract)
        restricted == Contains(text, K_private_video)
                          \/ Contains(Lower(text), K_login)
    IN  CASE blocked -> M_guidance
          [] ~blocked /\ restricted -> M_private
          [] OTHER -> M_could_not_process \o text

\* C11: when every strategy failed, the message of the error the caller gets
\* is the one assigned to the error text of the last strategy alone.
C11_MessageFromLastErrorOnly ==
    \A c \in Calls :
        Exhausted(c) =>
            /\ call[c].ret.kind = "raise"
            /\ call[c].ret.exc.msg
                   = MessageFor(AttemptError(call[c].probe_log[Len(Strategies)],
                                             call[c].download_id))

\* The protocol or the format note of fmt carries a segmented-streaming marker.
StreamingSegmented(fmt) ==
    \/ \E marker \in {T_m3u8, T_dash, T_http_dash_segments} :
           Contains(Get(fmt, "protocol", <<>>), marker)
    \/ \E marker \in {T_dash, T_hls, T_fragment} :
           Contains(Lower(Get(fmt, "format_note", <<>>)), marker)

\* fmt has no video stream: its video codec is absent or the literal "none".
NoVideoStream(fmt) ==
    Get(fmt, "vcodec", T_none) = T_none

\* formats is the single synthetic entry: 'best', 'best', 'mp4', no file size.
IsFallbackOnly(formats) ==
    /\ Len(formats) = 1
    /\ formats[1].format_id = T_best
    /\ formats[1].resolution = T_best
    /\ formats[1].ext = T_mp4
    /\ formats[1].filesize = <<>>

\* C12: a probed document whose raw format list holds only streaming-segmented
\* and audio-only descriptors ends the call with the single synthetic entry as
\* its format list.
C12_OnlyStreamingOrAudioGivesFallback ==
    \A c \in Calls :
        \A k \in 1..Len(call[c].probe_log) :
            LET o == call[c].probe_log[k].outcome IN
            (/\ o.ok /\ ~o.info.isNone /\ o.info.hasFormats
             /\ \A i \in 1..Len(o.info.formats) :
                    StreamingSegmented(o.info.formats[i])
                        \/ NoVideoStream(o.info.formats[i])) =>
                /\ call[c].ret.kind = "value"
                /\ IsFallbackOnly(call[c].ret.formats)

\* C13: a cleanup call that is over has returned normally, with no exception,
\* whatever path it was given and whichever removal failed.
C13_CleanupNeverRaises ==
    \A c \in Calls :
        call[c].op = "cleanup" /\ call[c].pc = "done" => call[c].ret = ReturnedNone

\* C13 witness: a cleanup whose recursive directory removal failed after it had
\* deleted the file, and that returned normally with the failure logged.
C13_Witness ==
    \E c \in Calls :
        /\ call[c].op = "cleanup"
        /\ call[c].pc = "done"
        /\ call[c].rm_failed
        /\ call[c].removed # {}
        /\ call[c].logged.cls = "OSError"
        /\ call[c].ret.kind = "value"

\* C14: the selector of the first fetch of a download is 'best' when format_id
\* is empty or 'best', and format_id followed by '/best' for every other
\* format_id.
C14_FirstSelector ==
    \A c \in Calls :
        call[c].op = "download" /\ call[c].fetch_log # <<>> =>
            LET format_id == call[c].format_id
                selector == call[c].fetch_log[1].selector
            IN  /\ format_id \in {<<>>, T_best} => selector = T_best
                /\ format_id \notin {<<>>, T_best} =>
                       /\ Len(selector) = Len(format_id) + 5
                       /\ SubSeq(selector, 1, Len(format_id)) = format_id
                       /\ SubSeq(selector, Len(format_id) + 1, Len(selector))
                              = <<"/", "b", "e", "s", "t">>

\* C14 witness: downloads whose first fetch was issued with 'BEST/best' for the
\* format_id 'BEST'.
C14_Witness ==
    \E c \in Calls :
        /\ call[c].op = "download"
        /\ call[c].format_id = V_BEST
        /\ call[c].fetch_log # <<>>
        /\ call[c].fetch_log[1].selector = <<"B", "E", "S", "T", "/", "b", "e", "s", "t">>

\* The entries of the descriptors of raw that pass the filters, in the order of
\* raw.
PassingEntries(raw) ==
    LET passing == SelectSeq(raw, LAMBDA fmt : FormatStep(fmt).kind = "keep")
    IN  [i \in 1..Len(passing) |-> FormatStep(passing[i]).entry]

\* The positions of entries whose resolution occurs at no earlier position.
FirstSeenPositions(entries) ==
    {i \in 1..Len(entries) :
        \A j \in 1..(i - 1) : entries[j].resolution # entries[i].resolution}

\* The entries at the first-seen positions, in their original order.
FirstSeenEntries(entries) ==
    LET first == FirstSeenPositions(entries)
        nth(k) == CHOOSE i \in first : Cardinality({j \in first : j < i}) = k - 1
    IN  [k \in 1..Cardinality(first) |-> entries[nth(k)]]

\* The raw format list of the document the result of call c was built from.
ResultRaw(c) ==
    call[c].probe_log[Len(call[c].probe_log)].outcome.info.formats

\* C15 as claimed: the format list an extraction returns is the first-seen
\* subsequence of the passing descriptors of the raw list, whatever the raw
\* list is.
C15_FirstSeenSubsequence ==
    \A c \in Calls :
        call[c].op = "extract" /\ call[c].ret.kind = "value" =>
            call[c].ret.formats = FirstSeenEntries(PassingEntries(ResultRaw(c)))

\* C15 as amended: the format list an extraction returns is the first-seen
\* subsequence of the passing descriptors when at least one descriptor passes,
\* and the single synthetic 'best' entry when none does.
C15_FirstSeenOrFallback ==
    \A c \in Calls :
        call[c].op = "extract" /\ call[c].ret.kind = "value" =>
            LET entries == PassingEntries(ResultRaw(c)) IN
            IF entries # <<>>
            THEN call[c].ret.formats = FirstSeenEntries(entries)
            ELSE IsFallbackOnly(call[c].ret.formats)

\* C15 witness: from two passing descriptors of resolution "1280x720" the
\* result keeps the first ('hd') and not the second ('sd').
C15_Witness ==
    \E c \in Calls :
        /\ call[c].op = "extract"
        /\ call[c].ret.kind = "value"
        /\ ResultRaw(c) = <<RawHd, RawResolutionString>>
        /\ Len(PassingEntries(ResultRaw(c))) = 2
        /\ call[c].ret.formats = <<FormatStep(RawHd).entry>>

\* C16: the probes of a call were issued in the order desktop browser,
\* extractor-hinted, mobile browser; at most one of them has not returned yet;
\* and each probe after the first was issued when the attempt of the strategy
\* before it had returned and failed.
C16_ProbesSequentialInCatalogOrder ==
    \A c \in Calls :
        LET issued == call[c].issued
            log == call[c].probe_log
        IN  /\ Len(issued) <= 3
            /\ issued = SubSeq(<<"desktop", "extractor_hinted", "mobile">>, 1, Len(issued))
            /\ Cardinality(call[c].in_flight) <= 1
            /\ Len(issued) - Len(log) = Cardinality(call[c].in_flight)
            /\ \A k \in 1..Len(log) : log[k].strategy = issued[k]
            /\ \A k \in 2..Len(issued) : AttemptFailed(log[k - 1], call[c].download_id)

\* C16 witness: the mobile probe is in flight after the desktop and the
\* extractor-hinted attempts have failed.
C16_Witness ==
    \E c \in Calls :
        /\ call[c].op = "extract"
        /\ Len(call[c].issued) = 3
        /\ call[c].in_flight = {"mobile"}
        /\ Len(call[c].probe_log) = 2
        /\ \A k \in 1..2 : AttemptFailed(call[c].probe_log[k], call[c].download_id)

\* C17: the scratch directory of a download exists whenever the call is about
\* to issue a fetch, and existed when each of its fetches was issued, after
\* every sequence of completed calls.
C17_ScratchExistsAtFetch ==
    \A c \in Calls :
        call[c].op = "download" =>
            /\ call[c].pc = "fetch" => Resolve(dirs, call[c].download_path) \in dirs
            /\ \A k \in 1..Len(call[c].fetch_log) : call[c].fetch_log[k].dir_exists

\* C17 witness: a retry was issued by a download that found no directory for
\* its session identifier and created it.
C17_Witness ==
    \E c \in Calls :
        /\ call[c].op = "download"
        /\ DirectChild(call[c].download_path)
        /\ call[c].download_path \in call[c].written
        /\ Len(call[c].fetch_log) = 2
        /\ call[c].fetch_log[2].dir_exists

RECURSIVE Collapse(_, _)
\* The directory a path names once its ".." segments are taken.
Collapse(cur, rest) ==
    IF rest = <<>> THEN cur
    ELSE Collapse(IF Head(rest) = ".." THEN Parent(cur) ELSE Append(cur, Head(rest)),
                  Tail(rest))

\* The directory that directly contains file_path.
ContainingDir(file_path) ==
    Collapse(<<>>, Parent(file_path))

\* C18: a cleanup call has not removed the downloads root, and has removed no
\* session directory other than the one that directly contains its file_path.
C18_CleanupKeepsRootAndOtherSessions ==
    \A c \in Calls :
        call[c].op = "cleanup" =>
            /\ DOWNLOAD_DIR \notin call[c].removed
            /\ \A s \in SessionNames :
                   DOWNLOAD_DIR \o <<s>> \in call[c].removed =>
                       ContainingDir(call[c].file_path) = DOWNLOAD_DIR \o <<s>>

\* C19: no step of a download call removes a directory or a file, also when the
\* call ends in a terminal error; and what is in the downloads area is removed
\* only by steps of a cleanup call, or by a failed extraction inside the
\* directory that this extraction itself created.
C19_DownloadRemovesNothing ==
    [][LET gone == (dirs \cup files) \ (dirs' \cup files') IN
       \A c \in Calls :
           call'[c] # call[c] =>
               /\ call[c].op = "download" => gone = {}
               /\ gone # {} =>
                      \/ call[c].op = "cleanup"
                      \/ /\ call[c].op = "extract"
                         /\ call[c].download_path \in call[c].written
                         /\ \A n \in gone : Within(call[c].download_path, n)]_vars

\* C19 witness: a download has ended in a terminal error after a failed retry,
\* and its scratch directory still holds the file an earlier download wrote.
C19_Witness ==
    \E c \in Calls :
        /\ call[c].op = "download"
        /\ call[c].pc = "done"
        /\ call[c].ret.kind = "raise"
        /\ Len(call[c].fetch_log) = 2
        /\ DirectChild(call[c].download_path)
        /\ call[c].written = {}
        /\ \E n \in files : InParents(call[c].download_path, n)
====
